---- MODULE Spec2Model ----
(***************************************************************************)
(* Model of the cricket roster service (src/index.js): the in-memory       *)
(* player collection, the backing player file, the image directory and the *)
(* POST /players handler with its await points, and the GET handlers with  *)
(* the answer of the last one.                                             *)
(*                                                                         *)
(* A JavaScript string is a sequence of one-character strings; a JSON      *)
(* value is a record [type, v] whose v is always such a sequence, so that  *)
(* a number and a string are different values that can still be compared.  *)
(***************************************************************************)
EXTENDS Integers, Sequences, FiniteSets, TLC

VARIABLES players, dataFile, imageFiles, playersDirExists, reqs, reply

vars == <<players, dataFile, imageFiles, playersDirExists, reqs, reply>>

-----------------------------------------------------------------------------
(* JavaScript values and strings *)

Str(s) == [type |-> "string", v |-> s]

Num(s) == [type |-> "number", v |-> s]

IsString(val) == val.type = "string"

UpperLetters == <<"A", "B", "C", "D", "E", "F", "G", "H", "I", "J", "K", "L", "M", "N", "O", "P", "Q", "R", "S", "T", "U", "V", "W", "X", "Y", "Z">>

LowerLetters == <<"a", "b", "c", "d", "e", "f", "g", "h", "i", "j", "k", "l", "m", "n", "o", "p", "q", "r", "s", "t", "u", "v", "w", "x", "y", "z">>

Digits == <<"0", "1", "2", "3", "4", "5", "6", "7", "8", "9">>

Range(s) == {s[i] : i \in 1..Len(s)}

IndexOf(c, s) == CHOOSE i \in 1..Len(s) : s[i] = c

LowerChar(c) == IF c \in Range(UpperLetters) THEN LowerLetters[IndexOf(c, UpperLetters)] ELSE c

\* String.prototype.toLowerCase on the characters of a string
toLowerCase(s) == [i \in 1..Len(s) |-> LowerChar(s[i])]

\* the comparison without toLowerCase
EqualsExactly(a, b) == a.v = b.v

\* a.toLowerCase() === b.toLowerCase() for two string values
EqualsIgnoreCase(a, b) == toLowerCase(a.v) = toLowerCase(b.v)

-----------------------------------------------------------------------------
(* slugify, lines 36-40 *)

SlugChars == Range(LowerLetters) \cup Range(Digits)

\* .replace(/[^a-z0-9]+/g, '-'): every maximal run of other characters
\* becomes one hyphen
RECURSIVE ReplaceRuns(_, _)
ReplaceRuns(s, inRun) ==
    IF s = <<>> THEN <<>>
    ELSE IF Head(s) \in SlugChars THEN <<Head(s)>> \o ReplaceRuns(Tail(s), FALSE)
    ELSE IF inRun THEN ReplaceRuns(Tail(s), TRUE)
    ELSE <<"-">> \o ReplaceRuns(Tail(s), TRUE)

\* .replace(/^-+|-+$/g, '')
RECURSIVE StripLeading(_)
StripLeading(s) ==
    IF s # <<>> /\ Head(s) = "-" THEN StripLeading(Tail(s)) ELSE s

RECURSIVE StripTrailing(_)
StripTrailing(s) ==
    IF s # <<>> /\ s[Len(s)] = "-" THEN StripTrailing(SubSeq(s, 1, Len(s) - 1)) ELSE s

FallbackSlug == <<"p", "l", "a", "y", "e", "r">>

slugify(value) ==
    LET stripped == StripTrailing(StripLeading(ReplaceRuns(toLowerCase(value), FALSE)))
    IN  IF stripped = <<>> THEN FallbackSlug ELSE stripped

-----------------------------------------------------------------------------
(* mapMimeToExtension, lines 42-53 *)

MimeSvg == <<"i", "m", "a", "g", "e", "/", "s", "v", "g", "+", "x", "m", "l">>

MimeJpeg == <<"i", "m", "a", "g", "e", "/", "j", "p", "e", "g">>

MimeJpg == <<"i", "m", "a", "g", "e", "/", "j", "p", "g">>

ExtSvg == <<".", "s", "v", "g">>

ExtJpg == <<".", "j", "p", "g">>

ExtPng == <<".", "p", "n", "g">>

mapMimeToExtension(mime) ==
    IF mime = MimeSvg THEN ExtSvg
    ELSE IF mime = MimeJpeg \/ mime = MimeJpg THEN ExtJpg
    ELSE ExtPng

-----------------------------------------------------------------------------
(* The data-URL pattern of line 178:                                       *)
(*   /^data:(image\/[a-zA-Z0-9+.-]+);base64,(.+)$/                         *)

DataPrefix == <<"d", "a", "t", "a", ":">>

ImagePrefix == <<"i", "m", "a", "g", "e", "/">>

Base64Marker == <<";", "b", "a", "s", "e", "6", "4", ",">>

MimeChars == Range(UpperLetters) \cup Range(LowerLetters) \cup Range(Digits) \cup {"+", ".", "-"}

LineTerminators == {"\n", "\r"}

HasPrefixAt(s, i, p) ==
    /\ i + Len(p) - 1 <= Len(s)
    /\ SubSeq(s, i, i + Len(p) - 1) = p

\* index of the first character at or after i that is not a MIME character
\* (Len(s) + 1 when there is none)
RECURSIVE MimeEnd(_, _)
MimeEnd(s, i) ==
    IF i > Len(s) \/ s[i] \notin MimeChars THEN i ELSE MimeEnd(s, i + 1)

MimeStart == Len(DataPrefix) + 1

SubtypeStart == Len(DataPrefix) + Len(ImagePrefix) + 1

dataUrlMatch(s) ==
    LET j == MimeEnd(s, SubtypeStart)
        p == j + Len(Base64Marker)
    IN  /\ HasPrefixAt(s, 1, DataPrefix)
        /\ HasPrefixAt(s, MimeStart, ImagePrefix)
        /\ j > SubtypeStart
        /\ HasPrefixAt(s, j, Base64Marker)
        /\ p <= Len(s)
        /\ \A k \in p..Len(s) : s[k] \notin LineTerminators

\* dataUrlMatch[1] and dataUrlMatch[2]
MatchedMime(s) == SubSeq(s, MimeStart, MimeEnd(s, SubtypeStart) - 1)

MatchedPayload(s) == SubSeq(s, MimeEnd(s, SubtypeStart) + Len(Base64Marker), Len(s))

-----------------------------------------------------------------------------
(* Buffer.from(base64Payload, 'base64'), line 184: characters outside the  *)
(* base64 alphabets are skipped and decoding stops at the first '='; a     *)
(* payload that is not a string throws a TypeError.                        *)

Base64Alphabet == UpperLetters \o LowerLetters \o Digits \o <<"+", "/">>

unbase64(c) ==
    IF c = "-" THEN 62
    ELSE IF c = "_" THEN 63
    ELSE IndexOf(c, Base64Alphabet) - 1

IsBase64Char(c) == c \in Range(Base64Alphabet) \cup {"-", "_"}

RECURSIVE Sextets(_)
Sextets(s) ==
    IF s = <<>> \/ Head(s) = "=" THEN <<>>
    ELSE IF IsBase64Char(Head(s)) THEN <<unbase64(Head(s))>> \o Sextets(Tail(s))
    ELSE Sextets(Tail(s))

RECURSIVE DecodeGroups(_)
DecodeGroups(q) ==
    IF Len(q) < 2 THEN <<>>
    ELSE LET b1 == (q[1] * 4 + (q[2] \div 16)) % 256
         IN  IF Len(q) = 2 THEN <<b1>>
             ELSE LET b2 == ((q[2] % 16) * 16 + (q[3] \div 4)) % 256
                  IN  IF Len(q) = 3 THEN <<b1, b2>>
                      ELSE <<b1, b2, ((q[3] % 4) * 64 + q[4]) % 256>>
                               \o DecodeGroups(SubSeq(q, 5, Len(q)))

BufferFromBase64(s) == DecodeGroups(Sextets(s))

-----------------------------------------------------------------------------
(* The data model and the request bodies *)

\* requiredFields of POST /players, in the order of the array
requiredFields ==
    <<"playerName", "role", "teamName", "countryName", "age", "battingSyle",
      "uniquePlayerId", "runsScored", "centuriesScored", "wicketsTaken", "image">>

\* the keys of newPlayer
PlayerKeys == Range(requiredFields)

\* the keys a request body may carry: the ones the handler reads, and the
\* battingStyle of the documented data model
BodyKeys == PlayerKeys \cup {"battingStyle"}

FullBody(id, name, team, image) ==
    [f \in BodyKeys |->
        CASE f = "uniquePlayerId" -> id
          [] f = "playerName" -> name
          [] f = "teamName" -> team
          [] f = "image" -> image
          [] f = "role" -> Str(<<"b", "a", "t">>)
          [] f = "countryName" -> Str(<<"i", "n">>)
          [] f = "age" -> Num(<<"3", "0">>)
          [] f = "battingSyle" -> Str(<<"l">>)
          [] f = "battingStyle" -> Str(<<"r">>)
          [] f = "runsScored" -> Num(<<"9">>)
          [] f = "centuriesScored" -> Num(<<"1">>)
          [] f = "wicketsTaken" -> Num(<<"0">>)]

\* a body from which the keys of miss are absent
Without(body, miss) == [f \in (DOMAIN body) \ miss |-> body[f]]

EmptyBody == Without(<<>>, {})

-----------------------------------------------------------------------------
(* POST /players, lines 130-214: the synchronous part up to the first await *)

\* requiredFields.filter((field) => req.body[field] === undefined)
missing(body) == SelectSeq(requiredFields, LAMBDA f : f \notin DOMAIN body)

\* the scan that compares the ids only
RECURSIVE duplicateById(_, _, _, _)
duplicateById(ps, id, name, i) ==
    IF i > Len(ps) THEN "none"
    ELSE IF ~IsString(ps[i].uniquePlayerId) \/ ~IsString(id) THEN "throw"
    ELSE IF EqualsIgnoreCase(ps[i].uniquePlayerId, id) THEN "found"
    ELSE duplicateById(ps, id, name, i + 1)

\* players.find(...) of lines 164-168, scanning from index i: "found" when a
\* record matches, "none" when none does, "throw" when toLowerCase is called
\* on a value that is not a string
RECURSIVE duplicate(_, _, _, _)
duplicate(ps, id, name, i) ==
    IF i > Len(ps) THEN "none"
    ELSE IF ~IsString(ps[i].uniquePlayerId) \/ ~IsString(id) THEN "throw"
    ELSE IF EqualsIgnoreCase(ps[i].uniquePlayerId, id) THEN "found"
    ELSE IF ~IsString(ps[i].playerName) \/ ~IsString(name) THEN "throw"
    ELSE IF EqualsIgnoreCase(ps[i].playerName, name) THEN "found"
    ELSE duplicate(ps, id, name, i + 1)

\* regex.exec(image) matches against String(image)
ImageText(body) == body["image"].v

extension(body) ==
    IF dataUrlMatch(ImageText(body)) THEN mapMimeToExtension(MatchedMime(ImageText(body)))
    ELSE ExtPng

base64Payload(body) ==
    IF dataUrlMatch(ImageText(body)) THEN MatchedPayload(ImageText(body))
    ELSE ImageText(body)

\* a data-URL match always yields a string payload; otherwise the payload is
\* the image value itself, and Buffer.from throws unless it is a string
BufferFromThrows(body) == ~dataUrlMatch(ImageText(body)) /\ ~IsString(body["image"])

imageBuffer(body) == BufferFromBase64(base64Payload(body))

\* slugify(playerName) calls value.toLowerCase
SlugifyThrows(body) == ~IsString(body["playerName"])

fileName(body) == slugify(body["playerName"].v) \o extension(body)

PlayersUrlPrefix == <<"/", "p", "l", "a", "y", "e", "r", "s", "/">>

relativePath(body) == PlayersUrlPrefix \o fileName(body)

\* the record of a handler that stores the image value of the request
newPlayerWithPayload(body) == [f \in PlayerKeys |-> body[f]]

newPlayer(body) ==
    [f \in PlayerKeys |-> IF f = "image" THEN Str(relativePath(body)) ELSE body[f]]

-----------------------------------------------------------------------------
(* JSON.stringify(players, null, 2) and the loading of the player file *)

LBracket == [t |-> "["]

RBracket == [t |-> "]"]

Comma == [t |-> ","]

Object(p) == [t |-> "{}", v |-> p]

RECURSIVE Elements(_)
Elements(ps) ==
    IF ps = <<>> THEN <<>>
    ELSE IF Len(ps) = 1 THEN <<Object(ps[1])>>
    ELSE <<Object(ps[1]), Comma>> \o Elements(Tail(ps))

\* the text of the file as a sequence of tokens
stringify(ps) == <<LBracket>> \o Elements(ps) \o <<RBracket>>

\* the text parses when it is an opening bracket, objects separated by
\* commas, and a closing bracket
IsJson(text) ==
    /\ Len(text) >= 2
    /\ text[1] = LBracket
    /\ text[Len(text)] = RBracket
    /\ Len(text) > 2 => Len(text) % 2 = 1
    /\ \A i \in 2..(Len(text) - 1) :
        IF i % 2 = 0 THEN text[i].t = "{}" ELSE text[i] = Comma

\* require('../data/iplPlayers.json'), line 5, of a text that parses
parse(text) == [i \in 1..((Len(text) - 1) \div 2) |-> text[2 * i].v]

\* writing data at offset 0 of a file whose content is old
Overlay(old, data) ==
    IF Len(data) >= Len(old) THEN data
    ELSE data \o SubSeq(old, Len(data) + 1, Len(old))

-----------------------------------------------------------------------------
(* GET /players/:uniquePlayerId, lines 116-127 *)

\* players.find(...) of lines 118-120 from index i: the index of the first
\* match, 0 when there is none, -1 when toLowerCase is called on a stored id
\* that is not a string
RECURSIVE findById(_, _, _)
findById(ps, id, i) ==
    IF i > Len(ps) THEN 0
    ELSE IF ~IsString(ps[i].uniquePlayerId) THEN -1
    ELSE IF EqualsIgnoreCase(ps[i].uniquePlayerId, id) THEN i
    ELSE findById(ps, id, i + 1)

\* the answer to the request: the record with status 200, or 404, or the
\* 500 of the framework when the handler throws
byId(ps, id) ==
    LET i == findById(ps, id, 1)
    IN  IF i = -1 THEN [status |-> 500, player |-> <<>>]
        ELSE IF i = 0 THEN [status |-> 404, player |-> <<>>]
        ELSE [status |-> 200, player |-> <<ps[i]>>]

-----------------------------------------------------------------------------
(* GET /players/grouped, lines 73-86 *)

\* the property key a team name becomes in acc[player.teamName]
KeyOf(p) == p.teamName.v

\* the keys of groupedMap in the order in which the reduce creates them
RECURSIVE InsertionOrder(_, _)
InsertionOrder(ps, seen) ==
    IF ps = <<>> THEN seen
    ELSE IF KeyOf(Head(ps)) \in Range(seen) THEN InsertionOrder(Tail(ps), seen)
    ELSE InsertionOrder(Tail(ps), Append(seen, KeyOf(Head(ps))))

DigitValue(c) == IndexOf(c, Digits) - 1

\* the order of two decimal texts without leading zeros by their values
RECURSIVE DigitsBelow(_, _)
DigitsBelow(a, b) ==
    IF a = <<>> \/ b = <<>> THEN FALSE
    ELSE IF Head(a) # Head(b) THEN DigitValue(Head(a)) < DigitValue(Head(b))
    ELSE DigitsBelow(Tail(a), Tail(b))

NotAbove(a, b) == Len(a) < Len(b) \/ (Len(a) = Len(b) /\ (a = b \/ DigitsBelow(a, b)))

\* the largest array index, 2^32 - 2
MaxArrayIndex == <<"4", "2", "9", "4", "9", "6", "7", "2", "9", "4">>

\* a key is an array index when it is the decimal text of an integer from 0
\* to 2^32 - 2, without a leading zero
IsArrayIndex(k) ==
    /\ k # <<>>
    /\ \A i \in 1..Len(k) : k[i] \in Range(Digits)
    /\ Len(k) > 1 => k[1] # "0"
    /\ NotAbove(k, MaxArrayIndex)

\* the keys of a set of array indices in ascending numeric order
RECURSIVE Ascending(_)
Ascending(ks) ==
    IF ks = {} THEN <<>>
    ELSE LET least == CHOOSE k \in ks : \A other \in ks : NotAbove(k, other)
         IN  <<least>> \o Ascending(ks \ {least})

\* Object.entries(groupedMap): the array indices in ascending order, then the
\* other keys in the order of their creation
EntriesOrder(keys) ==
    Ascending({k \in Range(keys) : IsArrayIndex(k)}) \o SelectSeq(keys, LAMBDA k : ~IsArrayIndex(k))

grouped(ps) ==
    LET keys == EntriesOrder(InsertionOrder(ps, <<>>))
    IN  [i \in 1..Len(keys) |->
            [teamName |-> Str(keys[i]),
             members |-> SelectSeq(ps, LAMBDA p : KeyOf(p) = keys[i])]]

-----------------------------------------------------------------------------
(* GET /players?teamName=, lines 89-113 *)

\* a query parameter that is not given
Undefined == [type |-> "undefined", v |-> <<>>]

WhiteSpace == {" ", "\t", "\n", "\r"}

RECURSIVE TrimStart(_)
TrimStart(s) == IF s # <<>> /\ Head(s) \in WhiteSpace THEN TrimStart(Tail(s)) ELSE s

RECURSIVE TrimEnd(_)
TrimEnd(s) ==
    IF s # <<>> /\ s[Len(s)] \in WhiteSpace THEN TrimEnd(SubSeq(s, 1, Len(s) - 1)) ELSE s

trim(s) == TrimEnd(TrimStart(s))

\* teamName.trim().toLowerCase()
normalized(teamName) == toLowerCase(trim(teamName.v))

roster(ps, teamName) ==
    SelectSeq(ps, LAMBDA p : toLowerCase(p.teamName.v) = normalized(teamName))

playerSummaries(members) ==
    [i \in 1..Len(members) |->
        [playerName |-> members[i].playerName,
         image |-> members[i].image,
         role |-> members[i].role,
         uniquePlayerId |-> members[i].uniquePlayerId]]

\* the answer: 400 when the parameter is falsy or not a string, 404 when the
\* roster is empty, else the team name of the first member and the summaries
byTeam(ps, teamName) ==
    IF teamName.v = <<>> \/ ~IsString(teamName)
    THEN [status |-> 400, teamName |-> Undefined, players |-> <<>>]
    ELSE IF roster(ps, teamName) = <<>>
    THEN [status |-> 404, teamName |-> Undefined, players |-> <<>>]
    ELSE [status |-> 200,
          teamName |-> roster(ps, teamName)[1].teamName,
          players |-> playerSummaries(roster(ps, teamName))]

-----------------------------------------------------------------------------
(* The answer of the last GET request *)

NoReply == [op |-> "none", query |-> Undefined, answer |-> <<>>]

-----------------------------------------------------------------------------
(* Inputs *)

\* the most requests that are in flight at once
MaxInFlight == 2

Slots == 1..MaxInFlight

Ids == {Str(<<"x">>), Str(<<"X">>), Str(<<"y">>)}

Names == {Str(<<"a">>), Str(<<"A">>), Str(<<"a", "!">>)}

PlainImage == Str(<<"Q", "Q", "=", "=">>)

BrokenImage == Str(<<"Q", "!", "g">>)

SvgImage == Str(DataPrefix \o MimeSvg \o Base64Marker \o <<"Q", "w", "=", "=">>)

JpegImage == Str(DataPrefix \o MimeJpeg \o Base64Marker \o <<"R", "A", "=", "=">>)

Images == {PlainImage, BrokenImage, SvgImage}

TeamT == Str(<<"t">>)

BaseBody == FullBody(Str(<<"x">>), Str(<<"a">>), TeamT, PlainImage)

FreshBody == FullBody(Str(<<"y">>), Str(<<"a", "!">>), TeamT, PlainImage)

\* bodies that carry every key with values of the documented types
TypedBodies ==
    {FullBody(id, name, TeamT, PlainImage) : id \in Ids, name \in Names}
        \cup {[b EXCEPT !["image"] = image] : b \in {BaseBody, FreshBody}, image \in Images}
        \cup {[FreshBody EXCEPT !["teamName"] = Str(<<"1">>)]}

\* bodies in which a number stands where the handler expects a string
UntypedBodies ==
    {[BaseBody EXCEPT !["uniquePlayerId"] = Num(<<"7">>)],
     [BaseBody EXCEPT !["playerName"] = Num(<<"7">>)],
     [BaseBody EXCEPT !["image"] = Num(<<"7">>)]}

\* bodies that lack one key, two of them, or all of them
MissingSets == {{f} : f \in BodyKeys} \cup {{"age", "image"}, {"battingSyle", "battingStyle"}, BodyKeys}

Bodies == TypedBodies \cup UntypedBodies \cup {Without(BaseBody, m) : m \in MissingSets}

\* the collections the player file may hold at startup
LoadedCollections ==
    {<<>>,
     <<newPlayer(BaseBody)>>,
     <<newPlayer(FullBody(Str(<<"y">>), Str(<<"a", "!">>), Str(<<"t">>), SvgImage)),
       newPlayer(FullBody(Str(<<"z">>), Str(<<"b">>), Str(<<"1">>), PlainImage))>>}

-----------------------------------------------------------------------------
(* The state of one request and its response *)

NoResponse == [status |-> 0, message |-> "", missing |-> <<>>, error |-> "", player |-> <<>>]

MissingFields(m) == [NoResponse EXCEPT !.status = 400, !.message = "Missing required fields", !.missing = m]

AlreadyExists == [NoResponse EXCEPT !.status = 400, !.message = "Player already exists"]

FailedToAdd(e) == [NoResponse EXCEPT !.status = 500, !.message = "Failed to add player", !.error = e]

Created(p) == [NoResponse EXCEPT !.status = 201, !.player = <<p>>]

Idle == [pc |-> "idle", body |-> EmptyBody, data |-> <<>>, res |-> NoResponse]

Finished(r) == reqs[r].pc \in {"idle", "done", "rejected"}

Respond(r, response) ==
    reqs' = [reqs EXCEPT ![r].pc = "done", ![r].data = <<>>, ![r].res = response]

Init ==
    /\ players \in LoadedCollections
    /\ dataFile = stringify(players)
    /\ imageFiles = <<>>
    /\ playersDirExists = FALSE
    /\ reqs = [r \in Slots |-> Idle]
    /\ reply = NoReply

-----------------------------------------------------------------------------
(* POST /players *)

\* the arrival at a handler that looks for a duplicate before it looks for
\* missing fields
ReceiveUniquenessFirst(r, body) ==
    /\ Finished(r)
    /\ UNCHANGED <<players, dataFile, imageFiles, playersDirExists, reply>>
    /\ LET start == [Idle EXCEPT !.body = body]
       IN  IF {"uniquePlayerId", "playerName"} \subseteq DOMAIN body
              /\ duplicate(players, body["uniquePlayerId"], body["playerName"], 1) = "found"
           THEN reqs' = [reqs EXCEPT ![r] = [start EXCEPT !.pc = "done", !.res = AlreadyExists]]
           ELSE IF missing(body) # <<>>
           THEN reqs' = [reqs EXCEPT ![r] = [start EXCEPT !.pc = "done", !.res = MissingFields(missing(body))]]
           ELSE LET dup == duplicate(players, body["uniquePlayerId"], body["playerName"], 1)
                IN  IF dup = "throw"
                    THEN reqs' = [reqs EXCEPT ![r] = [start EXCEPT !.pc = "rejected"]]
                    ELSE IF BufferFromThrows(body) \/ SlugifyThrows(body)
                    THEN reqs' = [reqs EXCEPT ![r] = [start EXCEPT !.pc = "done", !.res = FailedToAdd("TypeError")]]
                    ELSE reqs' = [reqs EXCEPT ![r] = [start EXCEPT !.pc = "mkdir"]]

\* the arrival at a handler that looks for a duplicate among the records of
\* the player file
ReceiveCheckingFile(r, body) ==
    /\ Finished(r)
    /\ UNCHANGED <<players, dataFile, imageFiles, playersDirExists, reply>>
    /\ LET start == [Idle EXCEPT !.body = body]
           stored == IF IsJson(dataFile) THEN parse(dataFile) ELSE <<>>
       IN  IF missing(body) # <<>>
           THEN reqs' = [reqs EXCEPT ![r] = [start EXCEPT !.pc = "done", !.res = MissingFields(missing(body))]]
           ELSE LET dup == duplicate(stored, body["uniquePlayerId"], body["playerName"], 1)
                IN  IF dup = "throw"
                    THEN reqs' = [reqs EXCEPT ![r] = [start EXCEPT !.pc = "rejected"]]
                    ELSE IF dup = "found"
                    THEN reqs' = [reqs EXCEPT ![r] = [start EXCEPT !.pc = "done", !.res = AlreadyExists]]
                    ELSE IF BufferFromThrows(body) \/ SlugifyThrows(body)
                    THEN reqs' = [reqs EXCEPT ![r] = [start EXCEPT !.pc = "done", !.res = FailedToAdd("TypeError")]]
                    ELSE reqs' = [reqs EXCEPT ![r] = [start EXCEPT !.pc = "mkdir"]]

\* lines 131-189: the handler runs from the arrival of the request to its
\* first await, or to the response that ends it
Receive(r, body) ==
    /\ Finished(r)
    /\ UNCHANGED <<players, dataFile, imageFiles, playersDirExists, reply>>
    /\ LET start == [Idle EXCEPT !.body = body]
       IN  IF missing(body) # <<>>
           THEN reqs' = [reqs EXCEPT ![r] = [start EXCEPT !.pc = "done", !.res = MissingFields(missing(body))]]
           ELSE LET dup == duplicate(players, body["uniquePlayerId"], body["playerName"], 1)
                IN  IF dup = "throw"
                    THEN reqs' = [reqs EXCEPT ![r] = [start EXCEPT !.pc = "rejected"]]
                    ELSE IF dup = "found"
                    THEN reqs' = [reqs EXCEPT ![r] = [start EXCEPT !.pc = "done", !.res = AlreadyExists]]
                    ELSE IF BufferFromThrows(body) \/ SlugifyThrows(body)
                    THEN reqs' = [reqs EXCEPT ![r] = [start EXCEPT !.pc = "done", !.res = FailedToAdd("TypeError")]]
                    ELSE reqs' = [reqs EXCEPT ![r] = [start EXCEPT !.pc = "mkdir"]]

\* line 189 resolves: the directory exists and fs.writeFile of the image is called
MkdirDone(r) ==
    /\ reqs[r].pc = "mkdir"
    /\ playersDirExists' = TRUE
    /\ reqs' = [reqs EXCEPT ![r].pc = "writeImage"]
    /\ UNCHANGED <<players, dataFile, imageFiles, reply>>

\* line 189 rejects
MkdirFails(r) ==
    /\ reqs[r].pc = "mkdir"
    /\ ~playersDirExists
    /\ Respond(r, FailedToAdd("mkdir"))
    /\ UNCHANGED <<players, dataFile, imageFiles, playersDirExists, reply>>

\* a write that keeps a file that is already there
WriteImageFileIfAbsent(path, bytes) ==
    imageFiles' = IF path \in DOMAIN imageFiles THEN imageFiles
                  ELSE [p \in (DOMAIN imageFiles) \cup {path} |-> IF p = path THEN bytes ELSE imageFiles[p]]

\* fs.writeFile(absolutePath, imageBuffer), line 190: the file is created or replaced
WriteImageFile(path, bytes) ==
    imageFiles' = [p \in (DOMAIN imageFiles) \cup {path} |-> IF p = path THEN bytes ELSE imageFiles[p]]

\* the step of a handler that looks for a duplicate again before it pushes
ImageWrittenUnlessDuplicate(r) ==
    /\ reqs[r].pc = "writeImage"
    /\ WriteImageFile(relativePath(reqs[r].body), imageBuffer(reqs[r].body))
    /\ players' = IF duplicate(players, reqs[r].body["uniquePlayerId"], reqs[r].body["playerName"], 1) = "none"
                  THEN Append(players, newPlayer(reqs[r].body))
                  ELSE players
    /\ reqs' = [reqs EXCEPT ![r].pc = "openData", ![r].data = stringify(players')]
    /\ UNCHANGED <<dataFile, playersDirExists, reply>>

\* the step of a handler that puts the record in front of the collection
ImageWrittenInFront(r) ==
    /\ reqs[r].pc = "writeImage"
    /\ WriteImageFile(relativePath(reqs[r].body), imageBuffer(reqs[r].body))
    /\ players' = <<newPlayer(reqs[r].body)>> \o players
    /\ reqs' = [reqs EXCEPT ![r].pc = "openData", ![r].data = stringify(players')]
    /\ UNCHANGED <<dataFile, playersDirExists, reply>>

\* lines 190-207: the image is written, the record is pushed and the write of
\* the serialized collection is started
ImageWritten(r) ==
    /\ reqs[r].pc = "writeImage"
    /\ WriteImageFile(relativePath(reqs[r].body), imageBuffer(reqs[r].body))
    /\ players' = Append(players, newPlayer(reqs[r].body))
    /\ reqs' = [reqs EXCEPT ![r].pc = "openData", ![r].data = stringify(players')]
    /\ UNCHANGED <<dataFile, playersDirExists, reply>>

\* the failure of a handler that pushes the record before it writes the image
ImageWriteFailsAfterPush(r) ==
    /\ reqs[r].pc = "writeImage"
    /\ players' = Append(players, newPlayer(reqs[r].body))
    /\ Respond(r, FailedToAdd("writeImage"))
    /\ UNCHANGED <<dataFile, imageFiles, playersDirExists, reply>>

\* line 190 rejects: the file could not be opened, or only its first k
\* bytes were written
ImageWriteFails(r) ==
    /\ reqs[r].pc = "writeImage"
    /\ \/ UNCHANGED imageFiles
       \/ \E k \in 0..(Len(imageBuffer(reqs[r].body)) - 1) :
            WriteImageFile(relativePath(reqs[r].body), SubSeq(imageBuffer(reqs[r].body), 1, k))
    /\ Respond(r, FailedToAdd("writeImage"))
    /\ UNCHANGED <<players, dataFile, playersDirExists, reply>>

\* fs.writeFile of line 207 opens the player file, which truncates it
DataOpened(r) ==
    /\ reqs[r].pc = "openData"
    /\ dataFile' = <<>>
    /\ reqs' = [reqs EXCEPT ![r].pc = "writeData"]
    /\ UNCHANGED <<players, imageFiles, playersDirExists, reply>>

\* line 207 rejects before the file is opened
DataOpenFails(r) ==
    /\ reqs[r].pc = "openData"
    /\ Respond(r, FailedToAdd("writeData"))
    /\ UNCHANGED <<players, dataFile, imageFiles, playersDirExists, reply>>

\* lines 207-209: the text is written from the start of the file, and the
\* handler answers 201
DataWritten(r) ==
    /\ reqs[r].pc = "writeData"
    /\ dataFile' = Overlay(dataFile, reqs[r].data)
    /\ Respond(r, Created(newPlayer(reqs[r].body)))
    /\ UNCHANGED <<players, imageFiles, playersDirExists, reply>>

\* the failure of a handler that takes the record back when the write fails
DataWriteFailsRollback(r) ==
    /\ reqs[r].pc = "writeData"
    /\ players' = SubSeq(players, 1, Len(players) - 1)
    /\ Respond(r, FailedToAdd("writeData"))
    /\ UNCHANGED <<dataFile, imageFiles, playersDirExists, reply>>

\* line 207 rejects after the first k tokens of the text were written
DataWriteFails(r) ==
    /\ reqs[r].pc = "writeData"
    /\ \E k \in 0..(Len(reqs[r].data) - 1) :
        dataFile' = Overlay(dataFile, SubSeq(reqs[r].data, 1, k))
    /\ Respond(r, FailedToAdd("writeData"))
    /\ UNCHANGED <<players, imageFiles, playersDirExists, reply>>

-----------------------------------------------------------------------------
(* Requests handled one at a time: a request arrives when no other is in   *)
(* flight                                                                  *)

ReceiveAlone == (\A r \in Slots : Finished(r)) /\ \E body \in Bodies : Receive(1, body)

Next ==
    \/ ReceiveAlone
    \/ MkdirDone(1)
    \/ MkdirFails(1)
    \/ ImageWritten(1)
    \/ ImageWriteFails(1)
    \/ DataOpened(1)
    \/ DataOpenFails(1)
    \/ DataWritten(1)
    \/ DataWriteFails(1)

Spec == Init /\ [][Next]_vars

-----------------------------------------------------------------------------
(* Requests that overlap: a request may arrive while others are awaiting   *)
(* the file system                                                         *)

ClashBody == FullBody(Str(<<"X">>), Str(<<"a", "!">>), TeamT, PlainImage)

OverlappingBodies == {BaseBody, FreshBody, ClashBody}

ReceiveAny(r) == \E body \in OverlappingBodies : Receive(r, body)

NextOverlapping ==
    \E r \in Slots :
        \/ ReceiveAny(r)
        \/ MkdirDone(r)
        \/ MkdirFails(r)
        \/ ImageWritten(r)
        \/ ImageWriteFails(r)
        \/ DataOpened(r)
        \/ DataOpenFails(r)
        \/ DataWritten(r)
        \/ DataWriteFails(r)

SpecOverlapping == Init /\ [][NextOverlapping]_vars

-----------------------------------------------------------------------------
(* The GET handlers, among requests handled one at a time *)

all(ps) == ps

\* the values of the teamName query parameter: absent, empty, blank, a list,
\* and names in several spellings
ListQuery == [type |-> "object", v |-> <<"t", "u">>]

TeamQueries ==
    {Undefined, ListQuery, Str(<<>>), Str(<<" ">>), Str(<<" ", "\t">>),
     Str(<<"t">>), Str(<<" ", "T", " ">>), Str(<<"1">>), Str(<<"u">>)}

Answer(op, query, answer) == reply' = [op |-> op, query |-> query, answer |-> <<answer>>]

\* lines 68-70
GetAll ==
    /\ Answer("all", Undefined, all(players))
    /\ UNCHANGED <<players, dataFile, imageFiles, playersDirExists, reqs>>

\* a handler that sorts the collection in place before it groups it
GetGroupedReversing ==
    /\ players' = [i \in 1..Len(players) |-> players[Len(players) + 1 - i]]
    /\ Answer("grouped", Undefined, grouped(players'))
    /\ UNCHANGED <<dataFile, imageFiles, playersDirExists, reqs>>

\* lines 73-86
GetGrouped ==
    /\ Answer("grouped", Undefined, grouped(players))
    /\ UNCHANGED <<players, dataFile, imageFiles, playersDirExists, reqs>>

\* lines 89-113
GetByTeam ==
    \E teamName \in TeamQueries :
        /\ Answer("byTeam", teamName, byTeam(players, teamName))
        /\ UNCHANGED <<players, dataFile, imageFiles, playersDirExists, reqs>>

\* lines 116-127
GetById ==
    \E id \in Ids :
        /\ Answer("byId", id, byId(players, id))
        /\ UNCHANGED <<players, dataFile, imageFiles, playersDirExists, reqs>>

TeamUpperT == Str(<<"T">>)

TeamOne == Str(<<"1">>)

\* the bodies posted between the reads: players of the teams t, T and 1, a
\* player whose name yields the slug of another, and a body that lacks a key
ReadBodies ==
    {BaseBody,
     FullBody(Str(<<"y">>), Str(<<"a", "!">>), TeamOne, SvgImage),
     FullBody(Str(<<"w">>), Str(<<"c">>), TeamUpperT, JpegImage),
     Without(BaseBody, {"age"})}

ReceiveBetweenReads == (\A r \in Slots : Finished(r)) /\ \E body \in ReadBodies : Receive(1, body)

NextReads ==
    \/ GetAll
    \/ GetGrouped
    \/ GetByTeam
    \/ GetById
    \/ ReceiveBetweenReads
    \/ MkdirDone(1)
    \/ MkdirFails(1)
    \/ ImageWritten(1)
    \/ ImageWriteFails(1)
    \/ DataOpened(1)
    \/ DataOpenFails(1)
    \/ DataWritten(1)
    \/ DataWriteFails(1)

SpecReads == Init /\ [][NextReads]_vars

-----------------------------------------------------------------------------
(* Vocabulary of the properties *)

\* two values have the same text when letter case is ignored
SameText(a, b) == toLowerCase(a.v) = toLowerCase(b.v)

IdOf(body) == body["uniquePlayerId"]

NameOf(body) == body["playerName"]

\* some record of ps has the id or the name of the body
Collides(ps, body) ==
    \E i \in 1..Len(ps) :
        \/ SameText(ps[i].uniquePlayerId, IdOf(body))
        \/ SameText(ps[i].playerName, NameOf(body))

\* the id and the name are strings, as the data model has them
TypedKeys(body) == IsString(IdOf(body)) /\ IsString(NameOf(body))

TypedCollection(ps) ==
    \A i \in 1..Len(ps) : IsString(ps[i].uniquePlayerId) /\ IsString(ps[i].playerName)

\* a string is valid base64 when it is made of whole 4-character groups of
\* alphabet characters, the last one padded with at most two '='
IsValidBase64(s) ==
    /\ Len(s) % 4 = 0
    /\ \E pad \in 0..2 :
        /\ pad <= Len(s)
        /\ \A i \in 1..(Len(s) - pad) : s[i] \in Range(Base64Alphabet)
        /\ \A i \in (Len(s) - pad + 1)..Len(s) : s[i] = "="

\* the 11 fields of a Player in the documented data model
DataModelFields == (PlayerKeys \ {"battingSyle"}) \cup {"battingStyle"}

\* a request arrives in slot r: only Receive changes a slot that is finished
Arrives(r) == Finished(r) /\ reqs'[r] # reqs[r]

\* the answers to a failure of the directory creation or of the image write
ImageErrors == {FailedToAdd("mkdir"), FailedToAdd("writeImage")}

PersistenceError == FailedToAdd("writeData")

\* the spellings of an id that differ in letter case only
Spellings(id) == {q \in Ids : SameText(q, id)}

-----------------------------------------------------------------------------
(* C1: with requests handled one at a time, no two records of the          *)
(* collection have the same uniquePlayerId, and no two the same            *)
(* playerName, letter case ignored.                                        *)
C1_KeysUnique ==
    \A i, j \in 1..Len(players) :
        i < j =>
            /\ ~SameText(players[i].uniquePlayerId, players[j].uniquePlayerId)
            /\ ~SameText(players[i].playerName, players[j].playerName)

\* a second record was created after the first
C1_Witness ==
    /\ reqs[1].res.status = 201
    /\ Len(players) >= 2
    /\ players[Len(players)] = newPlayer(reqs[1].body)

(* C2: a request that carries every field the handler requires, with       *)
(* string id and name, and whose id or name is that of a record of the     *)
(* collection (letter case ignored), is answered 400 "Player already       *)
(* exists" and leaves the collection as it was.                            *)
C2_ConflictRejected ==
    [][\A r \in Slots :
        (/\ Arrives(r)
         /\ missing(reqs'[r].body) = <<>>
         /\ TypedKeys(reqs'[r].body)
         /\ TypedCollection(players)
         /\ Collides(players, reqs'[r].body))
        => (/\ reqs'[r].pc = "done"
            /\ reqs'[r].res = AlreadyExists
            /\ players' = players)]_vars

\* a request was rejected for its name alone, its id being new
C2_Witness ==
    /\ reqs[1].res = AlreadyExists
    /\ \A i \in 1..Len(players) : ~SameText(players[i].uniquePlayerId, IdOf(reqs[1].body))
    /\ \E i \in 1..Len(players) : SameText(players[i].playerName, NameOf(reqs[1].body))

(* C3: a request from which a field of the data model is absent is         *)
(* answered 400 with a list that names every absent field of the data      *)
(* model, and the collection is unchanged.                                 *)
C3_MissingFieldsReported ==
    \A r \in Slots :
        LET absent == DataModelFields \ DOMAIN reqs[r].body
        IN  (reqs[r].pc # "idle" /\ absent # {}) =>
                /\ reqs[r].pc = "done"
                /\ reqs[r].res.status = 400
                /\ absent \subseteq Range(reqs[r].res.missing)

(* C4: after a request with every field of the data model and a new id and *)
(* name was answered 201, byId with its id in any letter case returns a    *)
(* record whose fields other than image are those of the request and whose *)
(* image is the derived path.                                              *)
C4_CreateThenById ==
    \A r \in Slots :
        (/\ reqs[r].res.status = 201
         /\ DataModelFields \subseteq DOMAIN reqs[r].body
         /\ TypedKeys(reqs[r].body))
        => \A q \in Spellings(IdOf(reqs[r].body)) :
            LET answer == byId(players, q)
            IN  /\ answer.status = 200
                /\ answer.player[1].image = Str(relativePath(reqs[r].body))
                /\ \A f \in DataModelFields \ {"image"} :
                    /\ f \in DOMAIN answer.player[1]
                    /\ answer.player[1][f] = reqs[r].body[f]

(* C5: when the creation of the directory or the write of the image file   *)
(* fails, the request is answered 500, no record is appended, and the      *)
(* player file is left as it was; until then the request has appended      *)
(* nothing.                                                                *)
C5_ImageFailureAborts ==
    /\ [](\A r \in Slots :
            (reqs[r].pc \in {"mkdir", "writeImage"} \/ reqs[r].res \in ImageErrors)
            => newPlayer(reqs[r].body) \notin Range(players))
    /\ [][\A r \in Slots :
            (reqs[r].pc \in {"mkdir", "writeImage"} /\ reqs'[r].pc = "done")
            => (/\ reqs'[r].res \in ImageErrors
                /\ players' = players
                /\ dataFile' = dataFile)]_vars

\* the write of the image file failed after the directory was created
C5_Witness ==
    /\ reqs[1].res = FailedToAdd("writeImage")
    /\ playersDirExists
    /\ ~Collides(players, reqs[1].body)

(* C6: a request that passes validation and the uniqueness check with an   *)
(* image payload that is not valid base64 is answered 500: it writes no    *)
(* image file and appends no record.                                       *)
C6_BadBase64Rejected ==
    \A r \in Slots :
        (/\ reqs[r].pc # "idle"
         /\ missing(reqs[r].body) = <<>>
         /\ IsString(reqs[r].body["image"])
         /\ ~IsValidBase64(base64Payload(reqs[r].body)))
        => (/\ reqs[r].pc \in {"done", "rejected"}
            /\ reqs[r].res.status \in {0, 400, 500}
            /\ reqs[r].res.status = 500 => newPlayer(reqs[r].body) \notin Range(players))

(* C7: when the write of the player file fails, the request is answered    *)
(* 500 and the appended record stays: it is in the collection, byId        *)
(* returns it whatever the letter case of the id, and no later step        *)
(* removes it.                                                             *)
C7_AppendNotRolledBack ==
    /\ [](\A r \in Slots :
            (reqs[r].res = PersistenceError /\ TypedKeys(reqs[r].body))
            => (/\ newPlayer(reqs[r].body) \in Range(players)
                /\ \A q \in Spellings(IdOf(reqs[r].body)) :
                    byId(players, q) = [status |-> 200, player |-> <<newPlayer(reqs[r].body)>>]))
    /\ [][\A r \in Slots :
            (reqs[r].pc \in {"openData", "writeData"} /\ reqs'[r].pc = "done")
            => (/\ reqs'[r].res.status \in {201, 500}
                /\ players' = players)]_vars
    /\ [][\A r \in Slots :
            reqs[r].res = PersistenceError => newPlayer(reqs[r].body) \in Range(players')]_vars

\* the write failed part-way: the file is not the collection, which has the record
C7_Witness ==
    /\ reqs[1].res = PersistenceError
    /\ newPlayer(reqs[1].body) \in Range(players)
    /\ dataFile # stringify(players)

(* C8: two overlapping requests with the same new uniquePlayerId can both  *)
(* pass the uniqueness check before either appends; whenever two requests  *)
(* with the same id were both answered 201, the collection holds two       *)
(* records with that id.                                                   *)
C8_BothCreatedBothStored ==
    \A r1, r2 \in Slots :
        (/\ r1 # r2
         /\ reqs[r1].res.status = 201
         /\ reqs[r2].res.status = 201
         /\ SameText(IdOf(reqs[r1].body), IdOf(reqs[r2].body)))
        => Cardinality({i \in 1..Len(players) :
                SameText(players[i].uniquePlayerId, IdOf(reqs[r1].body))}) >= 2

\* both requests carried the id x, new to an empty collection, and both
\* were answered 201: the collection is two records with that id
C8_Witness ==
    /\ reqs[1].res.status = 201
    /\ reqs[2].res.status = 201
    /\ SameText(IdOf(reqs[1].body), IdOf(reqs[2].body))
    /\ Len(players) = 2
    /\ SameText(players[1].uniquePlayerId, players[2].uniquePlayerId)

(* C9: once no request is in flight, and the requests answered last had    *)
(* pairwise distinct ids and names and were all answered 201, the player   *)
(* file parses to the collection, in the same order.                       *)
C9_FileIsCollection ==
    (/\ \A r \in Slots : Finished(r)
     /\ \E r \in Slots : reqs[r].pc = "done"
     /\ \A r \in Slots : reqs[r].pc = "done" => reqs[r].res.status = 201
     /\ \A r1, r2 \in Slots :
            (r1 # r2 /\ reqs[r1].pc = "done" /\ reqs[r2].pc = "done")
            => (/\ ~SameText(IdOf(reqs[r1].body), IdOf(reqs[r2].body))
                /\ ~SameText(NameOf(reqs[r1].body), NameOf(reqs[r2].body))))
    => (IsJson(dataFile) /\ parse(dataFile) = players)

(* C10: the player file always holds a whole serialized collection, of the *)
(* records the collection has now or had at an earlier write: it is never  *)
(* empty and never a part of a text.                                       *)
C10_FileAlwaysWhole ==
    /\ IsJson(dataFile)
    /\ \E n \in 0..Len(players) : parse(dataFile) = SubSeq(players, 1, n)

-----------------------------------------------------------------------------
(* byTeam and grouped *)

\* a team name that is absent, empty, or made of white space only
IsBlank(teamName) == teamName = Undefined \/ (IsString(teamName) /\ trim(teamName.v) = <<>>)

\* C11: byTeam answers a team name that is absent, empty or blank with the
\* status 400, never with 404 and never with a roster.
C11_BlankTeamNameRejected ==
    (reply.op = "byTeam" /\ IsBlank(reply.query)) => reply.answer[1].status = 400

\* the position of the first player of a team
FirstOf(teamName, ps) == CHOOSE i \in 1..Len(ps) : ps[i].teamName = teamName /\ \A j \in 1..(i - 1) : ps[j].teamName # teamName

\* groups partition the collection by the stored team name: each team of the
\* collection has one group, a group holds the players of exactly its team in
\* their order, and the groups stand in the order in which the teams first appear
PartitionsInOrder(groups, ps) ==
    /\ \A i \in 1..Len(ps) : \E g \in 1..Len(groups) : groups[g].teamName = ps[i].teamName
    /\ \A g, h \in 1..Len(groups) : groups[g].teamName = groups[h].teamName => g = h
    /\ \A g \in 1..Len(groups) :
        /\ groups[g].members # <<>>
        /\ groups[g].members = SelectSeq(ps, LAMBDA p : p.teamName = groups[g].teamName)
    /\ \A g, h \in 1..Len(groups) :
        g < h => FirstOf(groups[g].teamName, ps) < FirstOf(groups[h].teamName, ps)

\* a grouped request is answered in this step
GroupedAnswered == reply' # reply /\ reply'.op = "grouped"

\* C12: the answer of grouped partitions the collection by the exact stored
\* team name, keeps the members of a group in their order, and lists the
\* groups in the order in which their teams first appear, for every collection.
C12_GroupedPartitionsInOrder ==
    [][GroupedAnswered => PartitionsInOrder(reply'.answer[1], players')]_vars

\* C12, without the order of the groups: each player is in the one group of
\* its exact team name, and the members keep their order.
C12_GroupedPartitions ==
    [][GroupedAnswered =>
        /\ \A i \in 1..Len(players') :
            \E g \in 1..Len(reply'.answer[1]) : reply'.answer[1][g].teamName = players'[i].teamName
        /\ \A g \in 1..Len(reply'.answer[1]) :
            reply'.answer[1][g].members =
                SelectSeq(players', LAMBDA p : p.teamName = reply'.answer[1][g].teamName)]_vars

-----------------------------------------------------------------------------
(* The collection grows at its end only *)

\* the positions of the collection that hold the record made from a body
PositionsOf(body) == {i \in 1..Len(players) : players[i] = newPlayer(body)}

\* the request has pushed its record
Pushed(r) == reqs[r].pc \in {"openData", "writeData"} \/ reqs[r].res.status = 201

\* the step appends the record of a request that has written its image
AppendsOwnRecord(r) ==
    /\ reqs[r].pc = "writeImage"
    /\ reqs'[r].pc = "openData"
    /\ players' = Append(players, newPlayer(reqs[r].body))

\* C13: the collection before a step is a prefix of the collection after it,
\* no record is removed, reordered or changed, and a creation that succeeds
\* has added exactly one record, at the end.
C13_AppendOnly ==
    /\ [](\A r \in Slots :
            /\ reqs[r].pc \in {"mkdir", "writeImage"} => PositionsOf(reqs[r].body) = {}
            /\ Pushed(r) => PositionsOf(reqs[r].body) = {Len(players)})
    /\ [][players' = players \/ \E r \in Slots : AppendsOwnRecord(r)]_vars

\* a player was created after another one
C13_Witness ==
    /\ reqs[1].res.status = 201
    /\ Len(players) >= 2
    /\ players[Len(players)] = reqs[1].res.player[1]

\* C13 for requests that overlap: every step keeps the collection or puts the
\* record of the request at its end.
C13_AppendOnlyOverlapping ==
    [][players' = players \/ \E r \in Slots : AppendsOwnRecord(r)]_vars

-----------------------------------------------------------------------------
(* The stored image is a path *)

\* a slug: letters a-z, digits and single hyphens, not empty, with no hyphen
\* at either end
IsSlug(s) ==
    /\ s # <<>>
    /\ \A i \in 1..Len(s) : s[i] \in SlugChars \cup {"-"}
    /\ s[1] # "-" /\ s[Len(s)] # "-"
    /\ \A i \in 1..(Len(s) - 1) : ~(s[i] = "-" /\ s[i + 1] = "-")

\* /players/<slug><ext> with ext one of .svg, .jpg, .png
IsImagePath(image) ==
    /\ IsString(image)
    /\ \E ext \in {ExtSvg, ExtJpg, ExtPng} :
        /\ Len(image.v) > Len(PlayersUrlPrefix) + Len(ext)
        /\ SubSeq(image.v, 1, Len(PlayersUrlPrefix)) = PlayersUrlPrefix
        /\ SubSeq(image.v, Len(image.v) - Len(ext) + 1, Len(image.v)) = ext
        /\ IsSlug(SubSeq(image.v, Len(PlayersUrlPrefix) + 1, Len(image.v) - Len(ext)))

\* the records written to the player file, whole or in part
RecordsInFile == {dataFile[i].v : i \in {j \in 1..Len(dataFile) : dataFile[j].t = "{}"}}

\* the image values of the requests that were received
PayloadsReceived == {reqs[r].body["image"] : r \in {q \in Slots : "image" \in DOMAIN reqs[q].body}}

\* C14: the image of every record of the collection and of the player file
\* is /players/<slug><ext> with ext one of .svg, .jpg, .png, and is never the
\* base64 text or the data URL of the request.
C14_ImageIsPath ==
    \A p \in Range(players) \cup RecordsInFile :
        /\ IsImagePath(p.image)
        /\ p.image \notin PayloadsReceived

\* a player sent with a JPEG data URL was created and written to the file
C14_Witness ==
    /\ reqs[1].res.status = 201
    /\ reqs[1].body["image"] = JpegImage
    /\ \E p \in Range(players) \cap RecordsInFile :
        /\ p.uniquePlayerId = reqs[1].body["uniquePlayerId"]
        /\ p.image = Str(PlayersUrlPrefix \o <<"c">> \o ExtJpg)

-----------------------------------------------------------------------------
(* The reads change nothing *)

\* a GET request is answered in this step
ReadAnswered == reply' # reply

\* C15: a step that answers all, grouped, byTeam or byId leaves the
\* collection, the player file and the image directory unchanged, and a
\* grouped request that follows another with no change of the collection in
\* between gets the same answer.
C15_ReadsChangeNothing ==
    /\ [][ReadAnswered => UNCHANGED <<players, dataFile, imageFiles, playersDirExists, reqs>>]_vars
    /\ [][(reply.op = "grouped" /\ reply.answer[1] = grouped(players) /\ reply'.op = "grouped"
             /\ players' = players)
          => reply'.answer = reply.answer]_vars
    /\ [](reply.op = "all" => \A i \in 1..Len(reply.answer[1]) : reply.answer[1][i] = players[i])

\* the four reads were answered with players in the collection: the state
\* after a grouped request that followed a creation
C15_Witness ==
    /\ reply.op = "grouped"
    /\ Len(reply.answer[1]) = 2
    /\ reqs[1].res.status = 201
    /\ reply.answer[1] = grouped(players)
    /\ imageFiles # <<>>

-----------------------------------------------------------------------------
(* Players whose names yield the same file name *)

\* some record of ps has the image path that the body would get
SharesImagePath(ps, body) == \E i \in 1..Len(ps) : ps[i].image = Str(relativePath(body))

\* C16: a player whose name differs from every stored name, but yields the
\* slug and the extension of a stored player, is accepted like any other:
\* its image replaces the file of the stored player, and its record gets the
\* same image path while the stored record keeps it.
C16_SameSlugClobbers ==
    /\ [][(Arrives(1) /\ missing(reqs'[1].body) = <<>> /\ TypedKeys(reqs'[1].body)
             /\ TypedCollection(players) /\ IsString(reqs'[1].body["image"])
             /\ ~Collides(players, reqs'[1].body))
          => reqs'[1].pc = "mkdir"]_vars
    /\ [][(reqs[1].pc = "writeImage" /\ reqs'[1].pc = "openData")
          => /\ imageFiles'[relativePath(reqs[1].body)] = imageBuffer(reqs[1].body)
             /\ players'[Len(players')].image = Str(relativePath(reqs[1].body))
             /\ \A i \in 1..Len(players) : players'[i] = players[i]]_vars
    /\ [](reqs[1].res.status = 201
          => /\ imageFiles[relativePath(reqs[1].body)] = imageBuffer(reqs[1].body)
             /\ reqs[1].res.player[1].image = Str(relativePath(reqs[1].body)))

\* the players a! and a were created one after the other in an empty
\* collection: both records have the path /players/a.png, and the file holds
\* the image of the second
C16_Witness ==
    /\ reqs[1].res.status = 201
    /\ reqs[1].body = BaseBody
    /\ players = <<newPlayer([FreshBody EXCEPT !["image"] = BrokenImage]), newPlayer(BaseBody)>>
    /\ ~SameText(players[1].playerName, players[2].playerName)
    /\ players[1].image = players[2].image
    /\ imageBuffer([FreshBody EXCEPT !["image"] = BrokenImage]) # imageBuffer(BaseBody)
    /\ imageFiles[relativePath(BaseBody)] = imageBuffer(BaseBody)
    /\ parse(dataFile) = players

-----------------------------------------------------------------------------
(* The outcomes of a creation attempt *)

\* the answers of the five outcomes: success, validation error, conflict
\* error, image error and persistence error
IsOutcome(res) ==
    \/ res.status = 201 /\ res.player # <<>>
    \/ res.status = 400 /\ res.message = "Missing required fields" /\ res.missing # <<>>
    \/ res = AlreadyExists
    \/ res \in ImageErrors \cup {FailedToAdd("TypeError")}
    \/ res = PersistenceError

\* the handler of the request has run to its end
Ended(r) == reqs[r].pc \in {"done", "rejected"}

\* the 201 carries a record that is in the collection and in the player
\* file, whose write has completed
CreatedAfterWrite(r) ==
    reqs[r].res.status = 201 =>
        /\ players # <<>>
        /\ players[Len(players)] = reqs[r].res.player[1]
        /\ dataFile = stringify(players)

\* C17: a creation attempt is answered 201 only when its record was appended
\* and the write of the player file that followed has completed, and every
\* attempt that ends has one of the five outcomes as its answer.
C17_OneOfFiveOutcomes ==
    \A r \in Slots : CreatedAfterWrite(r) /\ (Ended(r) => reqs[r].pc = "done" /\ IsOutcome(reqs[r].res))

\* C17, first half: the 201 is sent only after the append and the completed
\* write of the player file.
C17_CreatedOnlyAfterWrite == \A r \in Slots : CreatedAfterWrite(r)

\* C17 for ids and names that are strings: every attempt that ends has one
\* of the five outcomes.
C17_TypedEndsInOutcome ==
    \A r \in Slots :
        (Ended(r) /\ missing(reqs[r].body) = <<>> /\ TypedKeys(reqs[r].body) /\ TypedCollection(players))
            => reqs[r].pc = "done" /\ IsOutcome(reqs[r].res)

-----------------------------------------------------------------------------
(* The order of the steps of a creation *)

\* the files: the player file, the image files and their directory
files == <<dataFile, imageFiles, playersDirExists>>

\* the answer is a validation error or a conflict error
IsClientError(res) == res.status = 400

\* C18: the handler checks the presence of the fields, then the uniqueness,
\* then writes the image, then appends, then writes the player file. An
\* attempt answered with a validation or a conflict error has written no
\* file; a body that lacks a field is answered with the validation error even
\* when its id or name collides; the image is written while the record is
\* not yet appended, and the player file only after the append.
C18_StepOrder ==
    /\ [][\A r \in Slots :
            (Arrives(r) /\ missing(reqs'[r].body) # <<>>)
                => reqs'[r].res = MissingFields(missing(reqs'[r].body))]_vars
    /\ [][\A r \in Slots :
            (Arrives(r) \/ IsClientError(reqs'[r].res)) => UNCHANGED <<files, players>>]_vars
    /\ [][\A r \in Slots :
            IsClientError(reqs'[r].res) => (Arrives(r) \/ reqs'[r] = reqs[r])]_vars
    /\ [][playersDirExists' # playersDirExists =>
            \E r \in Slots : reqs[r].pc = "mkdir" /\ PositionsOf(reqs[r].body) = {}]_vars
    /\ [][imageFiles' # imageFiles =>
            \E r \in Slots : reqs[r].pc = "writeImage" /\ PositionsOf(reqs[r].body) = {}]_vars
    /\ [][dataFile' # dataFile =>
            \E r \in Slots : reqs[r].pc \in {"openData", "writeData"}
                                /\ PositionsOf(reqs[r].body) = {Len(players)}]_vars

\* a body that lacks age and has the id and the name of a stored player was
\* answered with the validation error, and no file was written
C18_Witness ==
    /\ reqs[1].body = Without(BaseBody, {"age"})
    /\ players = <<newPlayer(BaseBody)>>
    /\ Collides(players, reqs[1].body)
    /\ reqs[1].res = MissingFields(<<"age">>)
    /\ imageFiles = <<>>
    /\ dataFile = stringify(players)

-----------------------------------------------------------------------------
(* A record whose write to the player file failed *)

\* the record at position i is in the player file
Persisted(i) == IsJson(dataFile) /\ i <= Len(parse(dataFile)) /\ parse(dataFile)[i] = players[i]

\* the request is still writing the record at position i
Writing(r, i) == reqs[r].pc \in {"openData", "writeData"} /\ i \in PositionsOf(reqs[r].body)

\* the record at position i was appended, its write to the player file
\* failed, and no later write has stored it
Abandoned(i) == i \in 1..Len(players) /\ ~Persisted(i) /\ \A r \in Slots : ~Writing(r, i)

\* the body has the id or the name of the record
SameKeys(p, body) ==
    \/ "uniquePlayerId" \in DOMAIN body /\ SameText(p.uniquePlayerId, body["uniquePlayerId"])
    \/ "playerName" \in DOMAIN body /\ SameText(p.playerName, body["playerName"])

\* the request arrives with the id or the name of an abandoned record
RetriesAbandoned(r) ==
    Arrives(r) /\ \E i \in 1..Len(players) : Abandoned(i) /\ SameKeys(players[i], reqs'[r].body)

\* the body names its id and its name, as strings, and the batting style in
\* both spellings
NamesKeys(body) ==
    /\ {"uniquePlayerId", "playerName", "battingSyle", "battingStyle"} \subseteq DOMAIN body
    /\ TypedKeys(body)

\* C19 as stated: every creation attempt that has the id or the name of an
\* abandoned record ends in the conflict error.
C19_RetryAlwaysConflicts ==
    [][\A r \in Slots :
        (RetriesAbandoned(r) /\ NamesKeys(reqs'[r].body) /\ TypedCollection(players))
            => reqs'[r].res = AlreadyExists]_vars

\* C19: a creation attempt that has the id or the name of an abandoned
\* record ends at once, without an append and without a write to any file:
\* in the conflict error when it carries every required field, in the
\* validation error when it lacks one. The player file changes only in the
\* write of a request for a player appended after the abandoned record, and
\* the abandoned record gets into the file only when such a write completes
\* and its request is answered 201.
C19_RetryNeverWrites ==
    /\ [][\A r \in Slots :
            RetriesAbandoned(r)
                => /\ UNCHANGED <<players, dataFile, imageFiles, playersDirExists>>
                   /\ Ended(r)'
                   /\ missing(reqs'[r].body) # <<>> => reqs'[r].res = MissingFields(missing(reqs'[r].body))
                   /\ (missing(reqs'[r].body) = <<>> /\ TypedKeys(reqs'[r].body) /\ TypedCollection(players))
                        => reqs'[r].res = AlreadyExists]_vars
    /\ [][\A i \in 1..Len(players) :
            (Abandoned(i) /\ dataFile' # dataFile)
                => \E r \in Slots :
                    /\ reqs[r].pc \in {"openData", "writeData"}
                    /\ \E j \in PositionsOf(reqs[r].body) : j > i
                    /\ newPlayer(reqs[r].body) # players[i]]_vars
    /\ [][\A i \in 1..Len(players) :
            (Abandoned(i) /\ Persisted(i)')
                => \E r \in Slots :
                    /\ reqs[r].pc = "writeData"
                    /\ reqs'[r].res = Created(newPlayer(reqs[r].body))
                    /\ \E j \in PositionsOf(reqs[r].body) : j > i]_vars

\* the write of the player x failed, and a second attempt with the id x was
\* answered with the conflict error; the record is still not in the file
C19_Witness ==
    /\ reqs[1].res = AlreadyExists
    /\ TypedKeys(reqs[1].body)
    /\ TypedCollection(players)
    /\ \E i \in 1..Len(players) :
        /\ Abandoned(i)
        /\ SameText(players[i].uniquePlayerId, reqs[1].body["uniquePlayerId"])
    /\ imageFiles # <<>>

====
